---- MODULE Spec2Model ----
(***************************************************************************)
(* Model of src/risk_analyzer.py: the RiskAnalyzer session (its loaded     *)
(* table df and its derived-metrics cache risk_summary) and the operations *)
(* that fill the cache and build the risk register.                        *)
(*                                                                         *)
(* Numbers.  pandas keeps the metrics as floats rounded to a fixed number  *)
(* of decimals; the model keeps them as scaled integers:                   *)
(*   hours and scores rounded to 2 decimals  -> hundredths                 *)
(*   rates and percentages rounded to 1 decimal -> tenths                  *)
(* NaN and Inf are the two values a float column takes besides numbers.    *)
(***************************************************************************)
EXTENDS Integers, Sequences, FiniteSets, TLC

VARIABLES df, risk_summary, category_analysis, register, last, loads, runs

vars == <<df, risk_summary, category_analysis, register, last, loads, runs>>

---------------------------------------------------------------------------
\* df                 self.df: the loaded table, or None
\* risk_summary       self.risk_summary: the cache of derived tables
\* category_analysis  the frame of all categories that the last call of
\*                    identify_high_risk_categories computed (its local)
\* register           the register generate_risk_register last wrote
\* last               the last call: the method, how it ended, what it gave
\* loads              the number of tables loaded so far
\* runs               how each call of run_complete_analysis so far ended

---------------------------------------------------------------------------
\* Bounds of the model

\* most rows of a table analysed on a freshly loaded analyzer
MaxRows == 3

\* most rows of a table loaded in a session that loads more than once
MaxSessionRows == 2

\* most tables one session loads
MaxLoads == 2

---------------------------------------------------------------------------
\* Float values that are not numbers (every number of the model is >= 0)

NaN == 0 - 1

Inf == 0 - 2

IsNum(x) == x >= 0

---------------------------------------------------------------------------
\* The incident table

\* a cell read_csv left empty
Null == "null"

CategoryOrder == <<"A", "B", "C">>

SeverityLevels == {"Critical", "High", "Medium", "Low"}

\* the shapes a row of the table takes in the model: valid rows, a row with a
\* severity outside the fixed set, a row with no incident_id.  The hours are
\* whole numbers chosen so that, for the tables of the model, every rounded
\* value is the one the float computation gives (no value falls on a decimal
\* tie that binary floating point would resolve by its representation error).
ProfileList ==
  << [incident_id |-> "INC", severity |-> "Critical", resolution_time_hours |-> 44,
      recurrence |-> "Yes", root_cause |-> "r1"],
     [incident_id |-> "INC", severity |-> "High", resolution_time_hours |-> 12,
      recurrence |-> "No", root_cause |-> "r1"],
     [incident_id |-> "INC", severity |-> "Low", resolution_time_hours |-> 4,
      recurrence |-> "No", root_cause |-> "r2"],
     [incident_id |-> "INC", severity |-> "High", resolution_time_hours |-> 12,
      recurrence |-> "Yes", root_cause |-> "r2"],
     [incident_id |-> "INC", severity |-> "Unknown", resolution_time_hours |-> 12,
      recurrence |-> "Yes", root_cause |-> "r1"],
     [incident_id |-> Null, severity |-> "Medium", resolution_time_hours |-> 4,
      recurrence |-> "Yes", root_cause |-> "r2"] >>

MkRow(c, p) ==
  [incident_id |-> p.incident_id, category |-> c, severity |-> p.severity,
   resolution_time_hours |-> p.resolution_time_hours,
   recurrence |-> p.recurrence, root_cause |-> p.root_cause]

\* the rows over the first nc categories and the first np profiles, as a list
RowList(nc, np) ==
  [k \in 1..(nc * np) |->
     MkRow(CategoryOrder[((k - 1) \div np) + 1], ProfileList[((k - 1) % np) + 1])]

\* the tables of 1..maxRows rows over a row list; rows that differ only in
\* their position give the same aggregates, so one order of each is kept
TablesOver(rows, maxRows) ==
  UNION { { [i \in 1..n |-> rows[f[i]]] :
              f \in { g \in [1..n -> 1..Len(rows)] :
                        \A i \in 1..(n - 1) : g[i] <= g[i + 1] } } :
          n \in 1..maxRows }

\* the table of the specification's end-to-end example: A has 10 High
\* incidents, 3 of them recurring, 12 h each; B has 2 Low incidents of 1 h
ExampleTable ==
  [i \in 1..12 |->
     IF i <= 10
       THEN [incident_id |-> "INC", category |-> "A", severity |-> "High",
             resolution_time_hours |-> 12,
             recurrence |-> IF i <= 3 THEN "Yes" ELSE "No", root_cause |-> "r1"]
       ELSE [incident_id |-> "INC", category |-> "B", severity |-> "Low",
             resolution_time_hours |-> 1, recurrence |-> "No",
             root_cause |-> "r2"]]

\* a table with every severity level, its first row recurring or not
BaselineTable(recurrence) ==
  << [incident_id |-> "INC", category |-> "A", severity |-> "Critical",
      resolution_time_hours |-> 44, recurrence |-> recurrence, root_cause |-> "r1"],
     [incident_id |-> "INC", category |-> "A", severity |-> "High",
      resolution_time_hours |-> 12, recurrence |-> "No", root_cause |-> "r1"],
     [incident_id |-> "INC", category |-> "B", severity |-> "Medium",
      resolution_time_hours |-> 12, recurrence |-> "No", root_cause |-> "r2"],
     [incident_id |-> "INC", category |-> "B", severity |-> "Low",
      resolution_time_hours |-> 4, recurrence |-> "No", root_cause |-> "r2"] >>

Tables == TablesOver(RowList(3, 6), MaxRows) \cup {ExampleTable}

SessionTables ==
  TablesOver(RowList(2, 2), MaxSessionRows)
    \cup {BaselineTable("Yes"), BaselineTable("No")}

\* the values of threshold_percentile tried
Percentiles == {0, 1, 25, 50, 75, 99, 100}

SessionPercentiles == {0, 75, 100}

---------------------------------------------------------------------------
\* Arithmetic

RECURSIVE SumSeq(_)
SumSeq(s) == IF s = <<>> THEN 0 ELSE Head(s) + SumSeq(Tail(s))

\* numpy's round of n/d to an integer of the scaled unit: to nearest, a tie
\* to the even neighbour
RoundDiv(n, d) ==
  LET q == n \div d
      r == n % d
  IN IF 2 * r < d THEN q
     ELSE IF 2 * r > d THEN q + 1
     ELSE IF q % 2 = 0 THEN q ELSE q + 1

RECURSIVE InsertAsc(_, _)
InsertAsc(x, s) ==
  IF s = <<>> THEN <<x>>
  ELSE IF x <= Head(s) THEN <<x>> \o s
  ELSE <<Head(s)>> \o InsertAsc(x, Tail(s))

RECURSIVE SortAsc(_)
SortAsc(s) == IF s = <<>> THEN <<>> ELSE InsertAsc(Head(s), SortAsc(Tail(s)))

Column(rows, field) == [i \in DOMAIN rows |-> rows[i][field]]

---------------------------------------------------------------------------
\* identify_high_risk_categories

\* severity_weights['Critical'] .. ['Low']
WeightCritical == 4
WeightHigh == 3
WeightMedium == 2
WeightLow == 1

severity_weights ==
  [s \in SeverityLevels |->
     CASE s = "Critical" -> WeightCritical
       [] s = "High" -> WeightHigh
       [] s = "Medium" -> WeightMedium
       [] OTHER -> WeightLow]

GroupRows(rows, field, key) == SelectSeq(rows, LAMBDA r : r[field] = key)

\* 'count': the cells of the column that are not null
CountNonNull(rows, field) == Len(SelectSeq(rows, LAMBDA r : r[field] # Null))

\* x.map(severity_weights).mean(): map leaves NaN for a severity that is no key
\* of the table, and mean skips NaN; the mean of nothing is NaN
AvgSeverityScore(g) ==
  LET mapped == SelectSeq(g, LAMBDA r : r.severity \in SeverityLevels)
      w == [i \in DOMAIN mapped |-> severity_weights[mapped[i].severity]]
  IN IF mapped = <<>> THEN NaN ELSE RoundDiv(100 * SumSeq(w), Len(w))

\* 'mean' of resolution_time_hours, .round(2)
AvgHours(g) == RoundDiv(100 * SumSeq(Column(g, "resolution_time_hours")), Len(g))

RecurringCount(g) == Len(SelectSeq(g, LAMBDA r : r.recurrence = "Yes"))

\* Recurring_Incidents / Incident_Count * 100, .round(1): a float division, so
\* x/0 is Inf and 0/0 is NaN
RecurrenceRate(recurring, count) ==
  IF count = 0 THEN (IF recurring = 0 THEN NaN ELSE Inf)
  ELSE RoundDiv(1000 * recurring, count)

\* the score without its resolution-time term
RiskScoreNoResolution(count, sev, rate, hours) ==
  IF count = 0 \/ ~IsNum(sev) \/ ~IsNum(rate) THEN NaN
  ELSE RoundDiv(count * sev * (1000 + rate), 1000)

\* Incident_Count * Avg_Severity_Score * (1 + Recurrence_Rate / 100)
\*   + Avg_Resolution_Hours / 10, .round(2); 0 * Inf and anything with NaN is NaN
RiskScore(count, sev, rate, hours) ==
  IF count = 0 \/ ~IsNum(sev) \/ ~IsNum(rate) THEN NaN
  ELSE RoundDiv(count * sev * (1000 + rate) + 100 * hours, 1000)

CategoryRow(rows, c) ==
  LET g == GroupRows(rows, "category", c)
      count == CountNonNull(g, "incident_id")
      sev == AvgSeverityScore(g)
      hours == AvgHours(g)
      rec == RecurringCount(g)
      rate == RecurrenceRate(rec, count)
  IN [category |-> c, Incident_Count |-> count, Avg_Severity_Score |-> sev,
      Avg_Resolution_Hours |-> hours, Recurring_Incidents |-> rec,
      Recurrence_Rate |-> rate, Risk_Score |-> RiskScore(count, sev, rate, hours)]

\* groupby('category'): one row per category of the table, in label order
CategoryAnalysis(rows) ==
  LET present == SelectSeq(CategoryOrder,
                           LAMBDA c : \E i \in DOMAIN rows : rows[i].category = c)
  IN [i \in DOMAIN present |-> CategoryRow(rows, present[i])]

\* Series.quantile(p / 100) of the scores that are numbers (NaN is skipped), by
\* linear interpolation between the two order statistics around the position
\* p/100 * (n - 1).  The result is kept times 100 (in ten-thousandths), which
\* holds the interpolated value exactly; NaN when no score is a number.
Quantile(scores, p) ==
  LET s == SortAsc(SelectSeq(scores, IsNum))
      n == Len(s)
      pos == p * (n - 1)
      lo == pos \div 100
      frac == pos % 100
      hi == IF lo + 1 < n THEN lo + 1 ELSE lo
  IN IF n = 0 THEN NaN
     ELSE 100 * s[lo + 1] + (s[hi + 1] - s[lo + 1]) * frac

\* the comparison with > in place of >=
AtOrAboveStrict(score, threshold) ==
  IsNum(score) /\ IsNum(threshold) /\ 100 * score > threshold

\* category_analysis['Risk_Score'] >= risk_threshold: false when either side
\* is NaN
AtOrAbove(score, threshold) ==
  IsNum(score) /\ IsNum(threshold) /\ 100 * score >= threshold

\* sort_values(field, ascending=False) with the default kind='quicksort', which
\* is not stable: every arrangement of the rows with the field non-increasing
\* is a result the sort may give
SortValuesDescending(rows, field) ==
  LET n == Len(rows)
      perms == { f \in [1..n -> 1..n] :
                   /\ \A i, j \in 1..n : i # j => f[i] # f[j]
                   /\ \A i \in 1..(n - 1) :
                        rows[f[i]][field] >= rows[f[i + 1]][field] }
  IN { [i \in 1..n |-> rows[f[i]]] : f \in perms }

\* the frames identify_high_risk_categories may return for a table and p
HighRisk(ca, p) ==
  LET risk_threshold == Quantile(Column(ca, "Risk_Score"), p)
      selected == SelectSeq(ca, LAMBDA r : AtOrAbove(r.Risk_Score, risk_threshold))
  IN SortValuesDescending(selected, "Risk_Score")

---------------------------------------------------------------------------
\* The session

\* risk_summary is a dict: a function from the keys present to their values
Put(d, k, v) == [x \in (DOMAIN d) \cup {k} |-> IF x = k THEN v ELSE d[x]]

Has(d, k) == k \in DOMAIN d

NoDf == [none |-> TRUE, rows |-> <<>>]

Loaded(t) == [none |-> FALSE, rows |-> t]

NoRegister == [written |-> FALSE, rows |-> <<>>]

\* __init__: no table, an empty cache
Init ==
  /\ df = NoDf
  /\ risk_summary = <<>>
  /\ category_analysis = <<>>
  /\ register = NoRegister
  /\ last = [op |-> "__init__", outcome |-> "returned", value |-> "analyzer"]
  /\ loads = 0
  /\ runs = <<>>

\* the call raises: nothing but the outcome changes
Raises(op, exc) ==
  /\ last' = [op |-> op, outcome |-> "raised", value |-> exc]
  /\ UNCHANGED <<df, risk_summary, category_analysis, register, loads, runs>>

\* self.df is None: self.df.groupby (or self.df[...]) raises
identify_high_risk_categories(threshold_percentile) ==
  IF df.none THEN Raises("identify_high_risk_categories", "AttributeError")
  ELSE
    /\ \E high_risk \in HighRisk(CategoryAnalysis(df.rows), threshold_percentile) :
         risk_summary' = Put(risk_summary, "high_risk_categories", high_risk)
    /\ category_analysis' = CategoryAnalysis(df.rows)
    /\ last' = [op |-> "identify_high_risk_categories",
                outcome |-> "returned", value |-> "high_risk",
                threshold_percentile |-> threshold_percentile]
    /\ UNCHANGED <<df, register, loads, runs>>

---------------------------------------------------------------------------
\* calculate_resolution_metrics

\* 'median' of a column, in hundredths
Median(xs) ==
  LET s == SortAsc(xs)
      n == Len(s)
  IN IF n % 2 = 1 THEN 100 * s[(n + 1) \div 2]
     ELSE 50 * (s[n \div 2] + s[(n \div 2) + 1])

\* the largest r in lo..hi with (2r - 1)^2 * den <= 40000 * num, which is
\* 100 * sqrt(num / den) rounded to the nearest integer
RECURSIVE RootSearch(_, _, _, _)
RootSearch(lo, hi, num, den) ==
  IF lo >= hi THEN lo
  ELSE LET mid == (lo + hi + 1) \div 2
       IN IF (2 * mid - 1) * (2 * mid - 1) * den <= 40000 * num
            THEN RootSearch(mid, hi, num, den)
            ELSE RootSearch(lo, mid - 1, num, den)

\* 'std': the sample standard deviation (ddof = 1), NaN for a single value
StdDev(xs) ==
  LET n == Len(xs)
      sum == SumSeq(xs)
      sumsq == SumSeq([i \in DOMAIN xs |-> xs[i] * xs[i]])
      s == SortAsc(xs)
  IN IF n < 2 THEN NaN
     ELSE RootSearch(0, 100 * (s[n] - s[1]) + 1, n * sumsq - sum * sum, n * (n - 1))

ResolutionRow(rows, c) ==
  LET g == GroupRows(rows, "category", c)
      xs == Column(g, "resolution_time_hours")
      s == SortAsc(xs)
  IN [category |-> c, Avg_Hours |-> AvgHours(g), Median_Hours |-> Median(xs),
      Min_Hours |-> 100 * s[1], Max_Hours |-> 100 * s[Len(s)],
      Std_Dev |-> StdDev(xs)]

\* the frames by_category may be: sorted by Avg_Hours, descending
ResolutionByCategory(rows) ==
  LET present == SelectSeq(CategoryOrder,
                           LAMBDA c : \E i \in DOMAIN rows : rows[i].category = c)
  IN SortValuesDescending([i \in DOMAIN present |-> ResolutionRow(rows, present[i])],
                          "Avg_Hours")

severity_order == <<"Critical", "High", "Medium", "Low">>

\* groupby('severity') then reindex(severity_order): a level with no row of
\* the table gets a row of NaN, a severity outside the order loses its row
ResolutionBySeverity(rows) ==
  [i \in DOMAIN severity_order |->
     LET g == GroupRows(rows, "severity", severity_order[i])
         xs == Column(g, "resolution_time_hours")
     IN IF g = <<>>
          THEN [severity |-> severity_order[i], Avg_Hours |-> NaN,
                Median_Hours |-> NaN, Incident_Count |-> NaN]
          ELSE [severity |-> severity_order[i], Avg_Hours |-> AvgHours(g),
                Median_Hours |-> Median(xs), Incident_Count |-> Len(g)]]

calculate_resolution_metrics ==
  IF df.none THEN Raises("calculate_resolution_metrics", "AttributeError")
  ELSE
    /\ \E by_category \in ResolutionByCategory(df.rows) :
         risk_summary' =
           Put(Put(risk_summary, "resolution_by_category", by_category),
               "resolution_by_severity", ResolutionBySeverity(df.rows))
    /\ last' = [op |-> "calculate_resolution_metrics",
                outcome |-> "returned", value |-> "tuple"]
    /\ UNCHANGED <<df, category_analysis, register, loads, runs>>

---------------------------------------------------------------------------
\* detect_recurring_issues

\* the severity values in the order in which strings sort
SeverityAlphabetical == <<"Critical", "High", "Low", "Medium", "Unknown">>

\* x.mode()[0]: Series.mode returns the most frequent values sorted, so the
\* first of them is the least in string order
ModeSeverity(g) ==
  LET freq(v) == Len(SelectSeq(g, LAMBDA r : r.severity = v))
      modes == SelectSeq(SeverityAlphabetical,
                         LAMBDA v : freq(v) > 0 /\
                                    \A i \in DOMAIN SeverityAlphabetical :
                                      freq(SeverityAlphabetical[i]) <= freq(v))
  IN modes[1]

Recurring(rows) == SelectSeq(rows, LAMBDA r : r.recurrence = "Yes")

RecurrenceRow(recurring, c) ==
  LET g == GroupRows(recurring, "category", c)
  IN [category |-> c, Recurring_Count |-> CountNonNull(g, "incident_id"),
      Most_Common_Severity |-> ModeSeverity(g), Avg_Resolution_Hours |-> AvgHours(g)]

\* the frames category_recurrence may be: sorted by Recurring_Count, descending
CategoryRecurrence(recurring) ==
  LET present == SelectSeq(CategoryOrder,
                   LAMBDA c : \E i \in DOMAIN recurring : recurring[i].category = c)
  IN SortValuesDescending(
       [i \in DOMAIN present |-> RecurrenceRow(recurring, present[i])],
       "Recurring_Count")

RootCauseOrder == <<"r1", "r2">>

\* x.unique(): the values in the order of their first occurrence
RECURSIVE Unique(_)
Unique(xs) ==
  IF xs = <<>> THEN <<>>
  ELSE LET init == Unique(SubSeq(xs, 1, Len(xs) - 1))
           x == xs[Len(xs)]
       IN IF \E i \in DOMAIN init : init[i] = x THEN init ELSE Append(init, x)

RootCauseRow(recurring, rc) ==
  LET g == GroupRows(recurring, "root_cause", rc)
  IN [root_cause |-> rc, Occurrence_Count |-> CountNonNull(g, "incident_id"),
      Affected_Categories |-> Unique(Column(g, "category"))]

\* .head(10)
TopRootCauses == 10

Head_n(s, n) == SubSeq(s, 1, IF Len(s) < n THEN Len(s) ELSE n)

\* the frames root_cause_analysis may be: sorted by the count, descending, the
\* first ten rows kept
RootCauseAnalysis(recurring) ==
  LET present == SelectSeq(RootCauseOrder,
                   LAMBDA rc : \E i \in DOMAIN recurring : recurring[i].root_cause = rc)
      sorted == SortValuesDescending(
                  [i \in DOMAIN present |-> RootCauseRow(recurring, present[i])],
                  "Occurrence_Count")
  IN { Head_n(t, TopRootCauses) : t \in sorted }

\* the cache after detect_recurring_issues: with no recurring row the method
\* returns before it stores anything
RecurringCache(rs, rows) ==
  IF Recurring(rows) = <<>> THEN {rs}
  ELSE { Put(Put(rs, "recurring_by_category", cr), "top_recurring_root_causes", rc) :
           cr \in CategoryRecurrence(Recurring(rows)),
           rc \in RootCauseAnalysis(Recurring(rows)) }

detect_recurring_issues ==
  IF df.none THEN Raises("detect_recurring_issues", "TypeError")
  ELSE
    /\ risk_summary' \in RecurringCache(risk_summary, df.rows)
    /\ last' = [op |-> "detect_recurring_issues", outcome |-> "returned",
                value |-> IF Recurring(df.rows) = <<>> THEN "empty DataFrame"
                          ELSE "tuple"]
    /\ UNCHANGED <<df, category_analysis, register, loads, runs>>

---------------------------------------------------------------------------
\* generate_severity_distribution

\* value_counts, Count / len(df) * 100 rounded to 1 decimal, then
\* reindex(severity_order)
SeverityDistribution(rows) ==
  [i \in DOMAIN severity_order |->
     LET n == Len(GroupRows(rows, "severity", severity_order[i]))
     IN IF n = 0
          THEN [severity |-> severity_order[i], Count |-> NaN, Percentage |-> NaN]
          ELSE [severity |-> severity_order[i], Count |-> n,
                Percentage |-> RoundDiv(1000 * n, Len(rows))]]

generate_severity_distribution ==
  IF df.none THEN Raises("generate_severity_distribution", "TypeError")
  ELSE
    /\ risk_summary' =
         Put(risk_summary, "severity_distribution", SeverityDistribution(df.rows))
    /\ last' = [op |-> "generate_severity_distribution",
                outcome |-> "returned", value |-> "severity_dist"]
    /\ UNCHANGED <<df, category_analysis, register, loads, runs>>

---------------------------------------------------------------------------
\* generate_risk_register

ScoreCritical == 50
ScoreHigh == 30
ScoreMedium == 15

\* the levels with the first bound exclusive
RiskLevelStrict(risk_score) ==
  IF risk_score > 100 * ScoreCritical THEN "Critical"
  ELSE IF risk_score >= 100 * ScoreHigh THEN "High"
  ELSE IF risk_score >= 100 * ScoreMedium THEN "Medium"
  ELSE "Low"

\* risk_score is in hundredths
RiskLevel(risk_score) ==
  IF risk_score >= 100 * ScoreCritical THEN "Critical"
  ELSE IF risk_score >= 100 * ScoreHigh THEN "High"
  ELSE IF risk_score >= 100 * ScoreMedium THEN "Medium"
  ELSE "Low"

Likelihood(risk_score) ==
  IF risk_score >= 100 * ScoreCritical THEN "Very High"
  ELSE IF risk_score >= 100 * ScoreHigh THEN "High"
  ELSE IF risk_score >= 100 * ScoreMedium THEN "Medium"
  ELSE "Low"

HoursSevere == 40
HoursMajor == 20
HoursModerate == 10

\* avg_resolution is in hundredths
Impact(avg_resolution) ==
  IF avg_resolution >= 100 * HoursSevere THEN "Severe"
  ELSE IF avg_resolution >= 100 * HoursMajor THEN "Major"
  ELSE IF avg_resolution >= 100 * HoursModerate THEN "Moderate"
  ELSE "Minor"

MitigateRecurrence == 50
MitigateHours == 30
MitigateCount == 8

\* the clauses of mitigation_text, which "; ".join puts in this order; the
\* text is kept as the list of its clauses
Mitigations(recurrence_rate, avg_resolution, incident_count) ==
  LET mitigations ==
        (IF recurrence_rate > 10 * MitigateRecurrence
           THEN <<"Conduct root cause analysis to address systemic issues">>
           ELSE <<>>)
        \o (IF avg_resolution > 100 * MitigateHours
              THEN <<"Review and optimize incident response procedures">>
              ELSE <<>>)
        \o (IF incident_count > MitigateCount
              THEN <<"Implement preventive controls to reduce incident frequency">>
              ELSE <<>>)
  IN IF mitigations # <<>> THEN mitigations
     ELSE <<"Monitor trends and maintain current controls">>

Status(risk_level) ==
  IF risk_level \in {"Critical", "High"} THEN "Active - Mitigation Required"
  ELSE "Active - Monitoring"

\* f'RISK-{risk_id:03d}': the digits of risk_id, zero-padded to three
RECURSIVE Digits(_)
Digits(n) == IF n < 10 THEN <<n>> ELSE Append(Digits(n \div 10), n % 10)

FormatRiskId(risk_id) ==
  LET d == Digits(risk_id)
  IN [i \in 1..(3 - Len(d)) |-> 0] \o d

\* the parts of risk_desc that vary: the recurrence clause is the empty
\* string unless the category is in the index of recurring_by_category, and
\* then holds the rate formatted with no decimals; the hours are formatted
\* with one decimal (in tenths)
RiskDescription(category, incident_count, recurrence_rate, avg_resolution, is_recurring) ==
  [category |-> category, incident_count |-> incident_count,
   recurrence_text |-> IF is_recurring THEN <<RoundDiv(recurrence_rate, 10)>>
                       ELSE <<>>,
   avg_resolution |-> RoundDiv(avg_resolution, 10)]

\* one entry of risk_register (Review_Date, the day of the run, is left out)
RegisterEntry(row, risk_id, recurring_index) ==
  [Risk_ID |-> FormatRiskId(risk_id),
   Category |-> row.category,
   Risk_Description |->
     RiskDescription(row.category, row.Incident_Count, row.Recurrence_Rate,
                     row.Avg_Resolution_Hours, row.category \in recurring_index),
   Risk_Level |-> RiskLevel(row.Risk_Score),
   Likelihood |-> Likelihood(row.Risk_Score),
   Impact |-> Impact(row.Avg_Resolution_Hours),
   Risk_Score |-> row.Risk_Score,
   Incident_Count |-> row.Incident_Count,
   Avg_Resolution_Hours |-> RoundDiv(row.Avg_Resolution_Hours, 10),
   Recurrence_Rate |-> row.Recurrence_Rate,
   Mitigation_Strategy |->
     Mitigations(row.Recurrence_Rate, row.Avg_Resolution_Hours, row.Incident_Count),
   Status |-> Status(RiskLevel(row.Risk_Score))]

\* the id never incremented
RiskIdConstant(i) == 1

\* risk_id starts at 1 and is incremented after each entry: the i-th entry
\* gets i
RiskIdAt(i) == i

\* recurring.index, empty when the cache has no 'recurring_by_category'
RecurringIndex(rs) ==
  IF Has(rs, "recurring_by_category")
    THEN { rs["recurring_by_category"][i].category :
             i \in DOMAIN rs["recurring_by_category"] }
    ELSE {}

RiskRegister(rs) ==
  LET high_risk == rs["high_risk_categories"]
  IN [i \in DOMAIN high_risk |->
        RegisterEntry(high_risk[i], RiskIdAt(i), RecurringIndex(rs))]

\* without 'high_risk_categories' the method prints a warning and returns
\* None.  Otherwise it writes the register; for an empty register the frame
\* has no columns and register_df['Risk_Level'], after to_csv, raises KeyError
generate_risk_register ==
  IF ~Has(risk_summary, "high_risk_categories")
    THEN /\ last' = [op |-> "generate_risk_register", outcome |-> "returned",
                     value |-> "None"]
         /\ UNCHANGED <<df, risk_summary, category_analysis, register, loads, runs>>
    ELSE /\ register' = [written |-> TRUE, rows |-> RiskRegister(risk_summary)]
         /\ last' = IF RiskRegister(risk_summary) = <<>>
                      THEN [op |-> "generate_risk_register", outcome |-> "raised",
                            value |-> "KeyError"]
                      ELSE [op |-> "generate_risk_register", outcome |-> "returned",
                            value |-> "register_df"]
         /\ UNCHANGED <<df, risk_summary, category_analysis, loads, runs>>

---------------------------------------------------------------------------
\* load_data and run_complete_analysis

load_data(t) ==
  /\ loads < MaxLoads
  /\ loads' = loads + 1
  /\ df' = Loaded(t)
  /\ last' = [op |-> "load_data", outcome |-> "returned", value |-> "None"]
  /\ UNCHANGED <<risk_summary, category_analysis, register, runs>>

\* read_csv raises (no file at data_path, or one it cannot parse): df is not
\* assigned
load_data_error == Raises("load_data", "FileNotFoundError")

\* threshold_percentile=75
DefaultPercentile == 75

\* print_executive_summary formats int(row['Percentage'] / 2) and
\* int(row['Count']) for the four rows of severity_distribution: int(NaN)
\* raises ValueError
SummaryRaises(severity_dist) ==
  \E i \in DOMAIN severity_dist : ~IsNum(severity_dist[i].Count)

\* load_data, the four analyses in turn, then print_executive_summary
run_complete_analysis(t) ==
  /\ loads < MaxLoads
  /\ loads' = loads + 1
  /\ df' = Loaded(t)
  /\ \E high_risk \in HighRisk(CategoryAnalysis(t), DefaultPercentile),
        by_category \in ResolutionByCategory(t) :
       LET rs1 == Put(risk_summary, "high_risk_categories", high_risk)
           rs2 == Put(Put(rs1, "resolution_by_category", by_category),
                      "resolution_by_severity", ResolutionBySeverity(t))
       IN \E rs3 \in RecurringCache(rs2, t) :
            risk_summary' = Put(rs3, "severity_distribution", SeverityDistribution(t))
  /\ category_analysis' = CategoryAnalysis(t)
  /\ last' = IF SummaryRaises(SeverityDistribution(t))
               THEN [op |-> "run_complete_analysis", outcome |-> "raised",
                     value |-> "ValueError"]
               ELSE [op |-> "run_complete_analysis", outcome |-> "returned",
                     value |-> "None"]
  /\ runs' = Append(runs, IF SummaryRaises(SeverityDistribution(t))
                            THEN "raised" ELSE "returned")
  /\ UNCHANGED register

---------------------------------------------------------------------------
\* Specifications

\* a session: any calls of the public methods, in any order
Next ==
  \/ \E t \in SessionTables : load_data(t)
  \/ load_data_error
  \/ \E p \in SessionPercentiles : identify_high_risk_categories(p)
  \/ calculate_resolution_metrics
  \/ detect_recurring_issues
  \/ generate_severity_distribution
  \/ \E t \in SessionTables : run_complete_analysis(t)
  \/ generate_risk_register

Spec == Init /\ [][Next]_vars

\* scoring on a fresh analyzer that has loaded a table
InitScoring ==
  /\ df \in { Loaded(t) : t \in Tables }
  /\ risk_summary = <<>>
  /\ category_analysis = <<>>
  /\ register = NoRegister
  /\ last = [op |-> "load_data", outcome |-> "returned", value |-> "None"]
  /\ loads = 1
  /\ runs = <<>>

NextScoring ==
  \/ \E p \in Percentiles : identify_high_risk_categories(p)
  \/ generate_risk_register

SpecScoring == InitScoring /\ [][NextScoring]_vars

\* the register builder alone, on a cache holding one high-risk row whose
\* metrics are drawn around the thresholds of the tiering rules
TierScores == {0, 1499, 1500, 2999, 3000, 4020, 4999, 5000, 5500}

TierHours == {0, 999, 1000, 1200, 1999, 2000, 3000, 3001, 3999, 4000, 4500}

TierRates == {0, 300, 500, 501, 600, 1000}

TierCounts == {1, 8, 9, 10}

TierRow(score, hours, rate, count) ==
  [category |-> "A", Incident_Count |-> count, Avg_Severity_Score |-> 300,
   Avg_Resolution_Hours |-> hours, Recurring_Incidents |-> 0,
   Recurrence_Rate |-> rate, Risk_Score |-> score]

TierRecurring ==
  << [category |-> "A", Recurring_Count |-> 1, Most_Common_Severity |-> "High",
      Avg_Resolution_Hours |-> 1200] >>

InitTier ==
  /\ df = NoDf
  /\ \E score \in TierScores, hours \in TierHours, rate \in TierRates,
        count \in TierCounts :
       LET rs == Put(<<>>, "high_risk_categories",
                     <<TierRow(score, hours, rate, count)>>)
       IN risk_summary \in {rs, Put(rs, "recurring_by_category", TierRecurring)}
  /\ category_analysis = <<>>
  /\ register = NoRegister
  /\ last = [op |-> "__init__", outcome |-> "returned", value |-> "analyzer"]
  /\ loads = 0
  /\ runs = <<>>

NextTier == generate_risk_register

SpecTier == InitTier /\ [][NextTier]_vars

---------------------------------------------------------------------------
\* Properties

AfterIdentify ==
  last.op = "identify_high_risk_categories" /\ last.outcome = "returned"

HighRiskCache == risk_summary["high_risk_categories"]

\* the categories whose score is a number
Scored(ca) == { i \in DOMAIN ca : IsNum(ca[i].Risk_Score) }

\* the k-th smallest score: fewer than k scores are below it, at least k are
\* at or below it
OrderStatistic(ca, k) ==
  CHOOSE v \in { ca[i].Risk_Score : i \in Scored(ca) } :
    /\ Cardinality({ i \in Scored(ca) : ca[i].Risk_Score < v }) < k
    /\ Cardinality({ i \in Scored(ca) : ca[i].Risk_Score <= v }) >= k

\* 100 times the p-th percentile: x(k) + f * (x(k+1) - x(k)) at the position
\* h = p/100 * (n - 1), k = floor(h) + 1, f = h - floor(h)
Percentile100(ca, p) ==
  LET n == Cardinality(Scored(ca))
      h == p * (n - 1)
      k == (h \div 100) + 1
      k1 == IF k < n THEN k + 1 ELSE k
  IN 100 * OrderStatistic(ca, k)
       + (h % 100) * (OrderStatistic(ca, k1) - OrderStatistic(ca, k))

\* C1: identify_high_risk_categories returns exactly the categories whose
\* Risk_Score is at or above the p-th percentile (linear interpolation between
\* order statistics) of the categories' scores: every category at or above it,
\* ties at it included, each once, with its metrics, and none below it
C1_HighRiskIsPercentileSet ==
  AfterIdentify =>
    LET ca == category_analysis
        hr == HighRiskCache
        expected ==
          { i \in Scored(ca) :
              100 * ca[i].Risk_Score >= Percentile100(ca, last.threshold_percentile) }
    IN /\ { hr[i] : i \in DOMAIN hr } = { ca[i] : i \in expected }
       /\ Len(hr) = Cardinality(expected)

\* C1 witness: three scored categories, p = 75, the two highest tie at the
\* percentile and are both returned, the third is below it and is not
C1_Witness ==
  /\ AfterIdentify
  /\ last.threshold_percentile = 75
  /\ Cardinality(Scored(category_analysis)) = 3
  /\ Len(HighRiskCache) = 2
  /\ HighRiskCache[1].Risk_Score = HighRiskCache[2].Risk_Score
  /\ 100 * HighRiskCache[1].Risk_Score = Percentile100(category_analysis, 75)

\* the rows of the loaded table in category c
InCategory(c) == { i \in DOMAIN df.rows : df.rows[i].category = c }

Weighted(c) == { i \in InCategory(c) : df.rows[i].severity \in SeverityLevels }

OfSeverity(c, sev) == Cardinality({ i \in InCategory(c) : df.rows[i].severity = sev })

\* the sum of the weights Critical=4, High=3, Medium=2, Low=1 over the rows
WeightSum(c) ==
  4 * OfSeverity(c, "Critical") + 3 * OfSeverity(c, "High")
    + 2 * OfSeverity(c, "Medium") + OfSeverity(c, "Low")

RECURSIVE HoursSum(_)
HoursSum(rowset) ==
  IF rowset = {} THEN 0
  ELSE LET i == CHOOSE x \in rowset : TRUE
       IN df.rows[i].resolution_time_hours + HoursSum(rowset \ {i})

\* n/d rounded to the nearest integer, a tie to the even one
Nearest(n, d) ==
  CHOOSE q \in {n \div d, (n \div d) + 1} :
    \/ 2 * (IF n >= q * d THEN n - q * d ELSE q * d - n) < d
    \/ 2 * (IF n >= q * d THEN n - q * d ELSE q * d - n) = d /\ q % 2 = 0

Counted(c) == Cardinality({ i \in InCategory(c) : df.rows[i].incident_id # Null })

RecurringIn(c) == Cardinality({ i \in InCategory(c) : df.rows[i].recurrence = "Yes" })

\* the specification's example: A (10 High, 3 recurring, 12 h) scores 40.2,
\* B (2 Low, none recurring, 1 h) scores 2.1
ExampleScores ==
  df.rows = ExampleTable =>
    /\ category_analysis[1].category = "A" /\ category_analysis[1].Risk_Score = 4020
    /\ category_analysis[2].category = "B" /\ category_analysis[2].Risk_Score = 210

\* C2 as stated: recurrence_rate = round1(recurring / count * 100) and
\* risk_score = round2(count * avg_severity_score * (1 + recurrence_rate / 100)
\* + avg_resolution_hours / 10) with avg_severity_score the mean of the weights
\* over the category's records (read here only for the categories all of whose
\* records have a weight and an incident_id)
C2_AsStated ==
  AfterIdentify =>
    /\ \A k \in DOMAIN category_analysis :
         LET r == category_analysis[k]
             c == r.category
             n == Cardinality(InCategory(c))
         IN (Weighted(c) = InCategory(c) /\ Counted(c) = n) =>
              /\ r.Recurrence_Rate = Nearest(1000 * RecurringIn(c), n)
              /\ r.Risk_Score =
                   Nearest(100 * n * WeightSum(c) * (1000 + r.Recurrence_Rate)
                             + 100 * r.Avg_Resolution_Hours * n,
                           1000 * n)
    /\ ExampleScores

\* C2 (amended): the same formulas with avg_severity_score the mean of the
\* weights over the category's records that have a weight, rounded to 2
\* decimals, avg_resolution_hours the mean rounded to 2 decimals and
\* incident_count the number of records with an incident_id; the score is NaN
\* when no record is counted or none has a weight
C2_RiskScoreFormula ==
  AfterIdentify =>
    /\ \A k \in DOMAIN category_analysis :
         LET r == category_analysis[k]
             c == r.category
             n == Cardinality(InCategory(c))
             w == Cardinality(Weighted(c))
         IN /\ r.Incident_Count = Counted(c)
            /\ r.Recurring_Incidents = RecurringIn(c)
            /\ r.Avg_Resolution_Hours = Nearest(100 * HoursSum(InCategory(c)), n)
            /\ w > 0 => r.Avg_Severity_Score = Nearest(100 * WeightSum(c), w)
            /\ Counted(c) > 0 =>
                 r.Recurrence_Rate = Nearest(1000 * RecurringIn(c), Counted(c))
            /\ (w > 0 /\ Counted(c) > 0) =>
                 r.Risk_Score =
                   Nearest(r.Incident_Count * r.Avg_Severity_Score
                             * (1000 + r.Recurrence_Rate)
                             + 100 * r.Avg_Resolution_Hours,
                           1000)
            /\ (w = 0 \/ Counted(c) = 0) => r.Risk_Score = NaN
    /\ ExampleScores

\* C2 witness: a scored category whose mean weight is not a multiple of 0.01
\* (the rounding of the average changes the score) and which has a recurring
\* record
C2_Witness ==
  /\ AfterIdentify
  /\ \E k \in DOMAIN category_analysis :
       LET c == category_analysis[k].category
       IN /\ IsNum(category_analysis[k].Risk_Score)
          /\ (100 * WeightSum(c)) % Cardinality(Weighted(c)) # 0
          /\ category_analysis[k].Recurrence_Rate > 0

AfterRegister ==
  last.op = "generate_risk_register" /\ Has(risk_summary, "high_risk_categories")

\* the tiering rules of the register, on hundredths (scores, hours) and tenths
\* (rates)
TierOfScore(score) ==
  CASE score >= 5000 -> <<"Critical", "Very High">>
    [] score < 5000 /\ score >= 3000 -> <<"High", "High">>
    [] score < 3000 /\ score >= 1500 -> <<"Medium", "Medium">>
    [] OTHER -> <<"Low", "Low">>

ImpactOfHours(hours) ==
  CASE hours >= 4000 -> "Severe"
    [] hours < 4000 /\ hours >= 2000 -> "Major"
    [] hours < 2000 /\ hours >= 1000 -> "Moderate"
    [] OTHER -> "Minor"

ClausesOf(rate, hours, count) ==
  LET all == << <<rate > 500, "Conduct root cause analysis to address systemic issues">>,
                <<hours > 3000, "Review and optimize incident response procedures">>,
                <<count > 8,
                  "Implement preventive controls to reduce incident frequency">> >>
      holding == SelectSeq(all, LAMBDA c : c[1])
  IN IF holding = <<>> THEN <<"Monitor trends and maintain current controls">>
     ELSE [i \in DOMAIN holding |-> holding[i][2]]

\* C3: every register entry is the function of the row's (risk_score,
\* avg_resolution_hours, recurrence_rate, incident_count) given by the tiering
\* rules: level and likelihood by the score, impact by the hours, the
\* mitigation clauses that hold in their order or else the default clause,
\* status by the level
C3_TieringIsPureFunction ==
  AfterRegister =>
    \A i \in DOMAIN register.rows :
      LET e == register.rows[i]
          row == HighRiskCache[i]
      IN /\ <<e.Risk_Level, e.Likelihood>> = TierOfScore(row.Risk_Score)
         /\ e.Impact = ImpactOfHours(row.Avg_Resolution_Hours)
         /\ e.Mitigation_Strategy =
              ClausesOf(row.Recurrence_Rate, row.Avg_Resolution_Hours,
                        row.Incident_Count)
         /\ e.Status = IF e.Risk_Level \in {"Critical", "High"}
                         THEN "Active - Mitigation Required"
                         ELSE "Active - Monitoring"

\* C3 witness: score 55, resolution 45 h, recurrence 60 %, count 10 gives
\* Critical / Very High / Severe and all three clauses
C3_Witness ==
  /\ AfterRegister
  /\ Len(register.rows) = 1
  /\ HighRiskCache[1].Risk_Score = 5500
  /\ HighRiskCache[1].Avg_Resolution_Hours = 4500
  /\ HighRiskCache[1].Recurrence_Rate = 600
  /\ HighRiskCache[1].Incident_Count = 10
  /\ register.rows[1].Risk_Level = "Critical"
  /\ register.rows[1].Likelihood = "Very High"
  /\ register.rows[1].Impact = "Severe"
  /\ Len(register.rows[1].Mitigation_Strategy) = 3
  /\ register.rows[1].Status = "Active - Mitigation Required"

\* the number a fixed-width code of decimal digits denotes
RECURSIVE DigitsValue(_)
DigitsValue(d) ==
  IF d = <<>> THEN 0
  ELSE 10 * DigitsValue(SubSeq(d, 1, Len(d) - 1)) + d[Len(d)]

\* C4: after generate_risk_register on a cache that holds the high-risk set,
\* the register has one entry per high-risk category and no other, in the
\* order of the high-risk set, which is by descending score, and the i-th
\* entry carries Risk_ID i
C4_RegisterFollowsHighRisk ==
  AfterRegister =>
    LET hr == HighRiskCache
        reg == register.rows
    IN /\ register.written
       /\ Len(reg) = Len(hr)
       /\ \A i \in DOMAIN reg :
            /\ reg[i].Category = hr[i].category
            /\ reg[i].Risk_Score = hr[i].Risk_Score
            /\ DigitsValue(reg[i].Risk_ID) = i
       /\ \A i, j \in DOMAIN reg :
            /\ i # j => reg[i].Category # reg[j].Category
            /\ i # j => reg[i].Risk_ID # reg[j].Risk_ID
            /\ i < j => reg[i].Risk_Score >= reg[j].Risk_Score

\* C4 witness: a register of three entries with falling scores
C4_Witness ==
  /\ AfterRegister
  /\ Len(register.rows) = 3
  /\ register.rows[1].Risk_Score > register.rows[2].Risk_Score
  /\ register.rows[2].Risk_Score > register.rows[3].Risk_Score
  /\ register.rows[3].Risk_ID = <<0, 0, 3>>

\* C5: generate_risk_register on an analyzer whose cache holds no high-risk
\* set (identify_high_risk_categories has not run) ends by raising
C5_RegisterBeforeScoringRaises ==
  (last.op = "generate_risk_register"
     /\ ~Has(risk_summary, "high_risk_categories")) =>
    last.outcome = "raised"

UnmappedSeverity(rows) == \E i \in DOMAIN rows : rows[i].severity \notin SeverityLevels

\* C6: on a table with a severity outside Critical, High, Medium, Low,
\* identify_high_risk_categories raises and leaves no category metrics and no
\* high-risk set
C6_UnmappedSeverityRaises ==
  (last.op = "identify_high_risk_categories" /\ ~df.none
     /\ UnmappedSeverity(df.rows)) =>
    /\ last.outcome = "raised"
    /\ category_analysis = <<>>
    /\ ~Has(risk_summary, "high_risk_categories")

\* every table of the session was loaded by a run_complete_analysis that
\* returned
OnlyCompleteRuns ==
  Len(runs) = loads /\ \A i \in DOMAIN runs : runs[i] = "returned"

\* C7: after a complete analysis run every derived table in the cache is one
\* computed from the table that run loaded; an entry the run does not compute
\* (no recurring row) is not left over from an earlier run
C7_CacheFromLatestRun ==
  (last.op = "run_complete_analysis" /\ OnlyCompleteRuns) =>
    /\ risk_summary["high_risk_categories"]
         \in HighRisk(CategoryAnalysis(df.rows), DefaultPercentile)
    /\ risk_summary["resolution_by_category"] \in ResolutionByCategory(df.rows)
    /\ risk_summary["resolution_by_severity"] = ResolutionBySeverity(df.rows)
    /\ risk_summary["severity_distribution"] = SeverityDistribution(df.rows)
    /\ Has(risk_summary, "recurring_by_category") =>
         /\ Recurring(df.rows) # <<>>
         /\ risk_summary["recurring_by_category"]
              \in CategoryRecurrence(Recurring(df.rows))
    /\ Has(risk_summary, "top_recurring_root_causes") =>
         /\ Recurring(df.rows) # <<>>
         /\ risk_summary["top_recurring_root_causes"]
              \in RootCauseAnalysis(Recurring(df.rows))

\* C8: on a table with no recurrence == "Yes" row, detect_recurring_issues
\* returns the empty analysis without raising, and the register built for
\* that table has no recurrence clause in any description
C8_NoRecurrenceClause ==
  /\ (last.op = "detect_recurring_issues" /\ ~df.none
        /\ Recurring(df.rows) = <<>>) =>
       (last.outcome = "returned" /\ last.value = "empty DataFrame")
  /\ (AfterRegister /\ ~df.none /\ Recurring(df.rows) = <<>>
        /\ OnlyCompleteRuns
        /\ category_analysis = CategoryAnalysis(df.rows)
        /\ \E p \in Percentiles :
             HighRiskCache \in HighRisk(CategoryAnalysis(df.rows), p)) =>
       \A i \in DOMAIN register.rows :
         register.rows[i].Risk_Description.recurrence_text = <<>>

\* C9: the per-severity result has the four rows Critical, High, Medium, Low
\* in this order, and the row of a level with no record has Incident_Count 0
C9_AbsentSeverityCountsZero ==
  (last.op = "calculate_resolution_metrics" /\ last.outcome = "returned") =>
    LET by_severity == risk_summary["resolution_by_severity"]
    IN /\ Column(by_severity, "severity") = <<"Critical", "High", "Medium", "Low">>
       /\ \A i \in DOMAIN by_severity :
            (\A k \in DOMAIN df.rows : df.rows[k].severity # by_severity[i].severity)
              => by_severity[i].Incident_Count = 0

LabelRank(c) == CHOOSE k \in DOMAIN CategoryOrder : CategoryOrder[k] = c

\* C10: the high-risk set is ordered by Risk_Score descending, and categories
\* of equal score by ascending category label
C10_TiesInLabelOrder ==
  AfterIdentify =>
    \A i, j \in DOMAIN HighRiskCache :
      i < j =>
        \/ HighRiskCache[i].Risk_Score > HighRiskCache[j].Risk_Score
        \/ /\ HighRiskCache[i].Risk_Score = HighRiskCache[j].Risk_Score
           /\ LabelRank(HighRiskCache[i].category) < LabelRank(HighRiskCache[j].category)

\* C11: in the metrics computed by identify_high_risk_categories every category
\* has Recurring_Incidents <= Incident_Count and a Recurrence_Rate that is a
\* number between 0 and 100 (rates are in tenths)
C11_RecurrenceWithinCount ==
  AfterIdentify =>
    \A i \in DOMAIN category_analysis :
      /\ category_analysis[i].Recurring_Incidents <= category_analysis[i].Incident_Count
      /\ IsNum(category_analysis[i].Recurrence_Rate)
      /\ category_analysis[i].Recurrence_Rate >= 0
      /\ category_analysis[i].Recurrence_Rate <= 1000

\* the categories whose score is the greatest of the scores that are numbers
MaxScored(ca) ==
  { i \in Scored(ca) : \A j \in Scored(ca) : ca[j].Risk_Score <= ca[i].Risk_Score }

\* C12: on a loaded table whose severities are all valid the high-risk set is
\* never empty, it holds every category of maximum Risk_Score, and a register
\* generated from it has at least one entry
C12_HighRiskNonEmpty ==
  (/\ ~df.none
   /\ df.rows # <<>>
   /\ ~UnmappedSeverity(df.rows)
   /\ Has(risk_summary, "high_risk_categories")
   /\ last.op \in {"identify_high_risk_categories", "generate_risk_register"}) =>
    /\ HighRiskCache # <<>>
    /\ \A i \in MaxScored(category_analysis) :
         \E k \in DOMAIN HighRiskCache :
           HighRiskCache[k].category = category_analysis[i].category
    /\ last.op = "generate_risk_register" =>
         (last.outcome = "returned" /\ register.rows # <<>>)

====
